---- MODULE Spec2Model ----
(***************************************************************************)
(* The wire-format model of mcp-protocol-types: the Rust values of the     *)
(* crate, the JSON text they are encoded to and decoded from by the serde  *)
(* implementations that the derive attributes of the source select, and    *)
(* the constructors of the crate.                                          *)
(*                                                                         *)
(* A producer builds a value (a constructor, or direct field assignment),  *)
(* serialises it, and a consumer deserialises the JSON; a peer may also    *)
(* send JSON of its own making.                                            *)
(***************************************************************************)
EXTENDS Integers, Sequences, FiniteSets

VARIABLES
    ty,      \* name of the Rust type being built, encoded or decoded
    origin,  \* the constructor that built val, "assigned", or "peer"
    args,    \* the arguments the constructor was called with
    val,     \* the producer's Rust value
    wire,    \* the result of serialising val, or the JSON a peer sent
    back,    \* the result of deserialising wire as ty
    phase    \* "idle", "built", "encoded", "decoded"

vars == <<ty, origin, args, val, wire, back, phase>>

(***************************************************************************)
(* Bounds of the model.                                                    *)
(***************************************************************************)
\* integers used as identifiers and payloads range over 0..MaxNumber
MaxNumber == 1
\* vectors hold at most MaxItems elements
MaxItems == 1
MaxCalls == 3

(***************************************************************************)
(* Result and Option.                                                      *)
(***************************************************************************)
Ok(v) == [ok |-> TRUE, v |-> v]
Err(e) == [ok |-> FALSE, err |-> e]
None == [some |-> FALSE]
Some(x) == [some |-> TRUE, v |-> x]

(***************************************************************************)
(* JSON text, abstractly: what serde_json::to_string writes and            *)
(* serde_json::from_str reads.  An object is the sequence of its entries   *)
(* as written (order kept, a key may repeat).  A number is an integer that *)
(* fits i64 (JInt), an integer above i64::MAX (JBigUint, one symbolic      *)
(* literal: 9223372036854775808), or a float (JFloat, in hundredths).      *)
(***************************************************************************)
JNull == [t |-> "null"]
JBool(b) == [t |-> "bool", b |-> b]
JInt(n) == [t |-> "int", n |-> n]
JBigUint == [t |-> "uint", big |-> "9223372036854775808"]
JFloat(h) == [t |-> "float", f |-> h]
JStr(s) == [t |-> "str", s |-> s]
JArr(a) == [t |-> "arr", a |-> a]
JObj(kv) == [t |-> "obj", kv |-> kv]
Entry(k, v) == [k |-> k, v |-> v]

WireKeys(j) == {j.kv[i].k : i \in 1..Len(j.kv)}
HasKey(j, k) == j.t = "obj" /\ k \in WireKeys(j)
\* the value of the first entry of object j under key k
Get(j, k) == j.kv[CHOOSE i \in 1..Len(j.kv) :
                    /\ j.kv[i].k = k
                    /\ \A h \in 1..(i-1) : j.kv[h].k # k].v
\* the value of the last entry of object j under key k
GetLast(j, k) == j.kv[CHOOSE i \in 1..Len(j.kv) :
                    /\ j.kv[i].k = k
                    /\ \A h \in (i+1)..Len(j.kv) : j.kv[h].k # k].v

(***************************************************************************)
(* serde_json::Value.  Scalars are as in the text; an object is a map      *)
(* from keys to values (serde_json::Map: one value per key, iterated in    *)
(* key order).  ObjectKeys lists, in that order, the keys the model's      *)
(* objects use.                                                            *)
(***************************************************************************)
VObj(m) == [t |-> "obj", m |-> m]
EmptyMap == [k \in {} |-> JNull]
ObjectKeys == <<"additionalProperties", "content", "description", "error", "field",
                "id", "inputSchema", "isError", "jsonrpc", "method", "name", "p",
                "param", "params", "properties", "q", "required", "result",
                "success", "title", "type", "x">>

RECURSIVE ToValue(_)
\* serde_json's Deserialize for Value: the last entry of a repeated key wins
ToValue(j) ==
    CASE j.t = "obj" -> VObj([k \in WireKeys(j) |-> ToValue(GetLast(j, k))])
      [] j.t = "arr" -> JArr([i \in 1..Len(j.a) |-> ToValue(j.a[i])])
      [] OTHER -> j

RECURSIVE ToWire(_)
\* serde_json's Serialize for Value: the entries of a map in key order
ToWire(v) ==
    CASE v.t = "obj" ->
            LET ks == SelectSeq(ObjectKeys, LAMBDA k : k \in DOMAIN v.m)
            IN JObj([i \in 1..Len(ks) |-> Entry(ks[i], ToWire(v.m[ks[i]]))])
      [] v.t = "arr" -> JArr([i \in 1..Len(v.a) |-> ToWire(v.a[i])])
      [] OTHER -> v

(***************************************************************************)
(* Type descriptors: the shape serde's derive sees.  A field carries its   *)
(* Rust name, its wire key (#[serde(rename)], else the Rust name), its     *)
(* type, and the skip_serializing_if = "Option::is_none" and flatten       *)
(* attributes.                                                             *)
(***************************************************************************)
TStr == [k |-> "str"]
TBool == [k |-> "bool"]
TI64 == [k |-> "i64"]
TI32 == [k |-> "i32"]
TF64 == [k |-> "f64"]
TValue == [k |-> "value"]
TMap == [k |-> "map"]
TOpt(t) == [k |-> "opt", of |-> t]
TVec(t) == [k |-> "vec", of |-> t]
TNamed(n) == [k |-> "named", name |-> n]

Field(name, type) ==
    [name |-> name, key |-> name, type |-> type, skip |-> FALSE, flatten |-> FALSE]
Rename(key, f) == [f EXCEPT !.key = key]
SkipNone(f) == [f EXCEPT !.skip = TRUE]
Flatten(f) == [f EXCEPT !.flatten = TRUE]

Struct(fields) == [kind |-> "struct", fields |-> fields]
\* an enum of unit variants, externally tagged (serde's default)
UnitEnum(variants) == [kind |-> "unit_enum", variants |-> variants]
UnitVariant(name, wirename) == [name |-> name, wire |-> wirename]
\* #[serde(untagged)]
Untagged(variants) == [kind |-> "untagged", variants |-> variants]
NewtypeVariant(name, slot, type) ==
    [name |-> name, unit |-> FALSE, slot |-> slot, type |-> type]
UntaggedUnit(name) == [name |-> name, unit |-> TRUE]
\* #[serde(tag = "...")]
Tagged(tag, variants) == [kind |-> "tagged", tag |-> tag, variants |-> variants]
StructVariant(name, wirename, fields) ==
    [name |-> name, wire |-> wirename, fields |-> fields]

(***************************************************************************)
(* protocol.rs                                                             *)
(***************************************************************************)
JSONRPC_VERSION == "2.0"
MCP_VERSION == "2024-11-05"

(***************************************************************************)
(* Faulty variants of four definitions below.  Each property that holds    *)
(* of the code is also run with one of them in place of the definition it  *)
(* shadows, to show that the property tells the two apart.                 *)
(***************************************************************************)
\* JsonRpcResponse::error that also fills result
JsonRpcResponse_error_keeps_result(id, error) ==
    [jsonrpc |-> JSONRPC_VERSION, id |-> id, result |-> Some(JNull), error |-> Some(error)]

\* RequestId with a fourth variant taking a JSON boolean
RequestId_with_flag ==
    Untagged(<< NewtypeVariant("String", "s", TStr),
                NewtypeVariant("Number", "n", TI64),
                NewtypeVariant("Flag", "b", TBool),
                UntaggedUnit("Null") >>)

\* sampling content with the resource variant of tool and prompt content
MessageContent_with_resource ==
    Tagged("type",
        << StructVariant("Text", "text", << Field("text", TStr) >>),
           StructVariant("Image", "image",
               << Field("data", TStr),
                  Rename("mimeType", Field("mime_type", TStr)) >>),
           StructVariant("Resource", "resource", << Field("resource", TStr) >>) >>)

\* McpError::method_not_found that keeps its argument as the message
McpError_method_not_found_plain(method) ==
    [code |-> "MethodNotFound", message |-> method, data |-> None]

\* ServerCapabilities without skip_serializing_if on its sub-capabilities
ServerCapabilities_nothing_skipped ==
    Struct(<< Field("tools", TOpt(TNamed("ToolsCapability"))),
              Field("resources", TOpt(TNamed("ResourcesCapability"))),
              Field("prompts", TOpt(TNamed("PromptsCapability"))),
              Field("logging", TOpt(TNamed("LoggingCapability"))),
              SkipNone(Field("experimental", TOpt(TMap))) >>)

\* ToolInputSchema with additional as an ordinary optional field
ToolInputSchema_additional_nested ==
    Struct(<< Rename("type", Field("type_", TStr)),
              SkipNone(Field("properties", TOpt(TValue))),
              SkipNone(Field("required", TOpt(TVec(TStr)))),
              SkipNone(Field("additional", TOpt(TValue))) >>)

\* Tool::with_parameter that creates the required list on every call
Tool_with_parameter_eager(self, name, description, required) ==
    LET schema == self.input_schema
        parameter == VObj([type |-> JStr("string"), description |-> JStr(description)])
        props == IF schema.properties.some THEN schema.properties.v.m ELSE EmptyMap
        inserted == [k \in DOMAIN props \cup {name} |->
                        IF k = name THEN parameter ELSE props[k]]
        req == IF schema.required.some THEN schema.required.v ELSE << >>
    IN [self EXCEPT !.input_schema =
            [schema EXCEPT !.properties = Some(VObj(inserted)),
                           !.required = Some(IF required THEN Append(req, name) ELSE req)]]

\* Tool::with_parameter that leaves a parameter already present as it is
Tool_with_parameter_keeps_first(self, name, description, required) ==
    LET schema == self.input_schema
        parameter == VObj([type |-> JStr("string"), description |-> JStr(description)])
        props == IF schema.properties.some THEN schema.properties.v.m ELSE EmptyMap
        inserted == [k \in DOMAIN props \cup {name} |->
                        IF k \in DOMAIN props THEN props[k] ELSE parameter]
        req == IF schema.required.some THEN schema.required.v ELSE << >>
    IN [self EXCEPT !.input_schema =
            [schema EXCEPT !.properties = Some(VObj(inserted)),
                           !.required = IF required THEN Some(Append(req, name))
                                        ELSE schema.required]]

\* JsonRpcRequest without skip_serializing_if on params
JsonRpcRequest_params_always_written ==
    Struct(<< Field("jsonrpc", TStr),
              Field("id", TNamed("RequestId")),
              Field("method", TStr),
              Field("params", TOpt(TValue)) >>)

JsonRpcRequest ==
    Struct(<< Field("jsonrpc", TStr),
              Field("id", TNamed("RequestId")),
              Field("method", TStr),
              SkipNone(Field("params", TOpt(TValue))) >>)

JsonRpcResponse ==
    Struct(<< Field("jsonrpc", TStr),
              Field("id", TNamed("RequestId")),
              SkipNone(Field("result", TOpt(TValue))),
              SkipNone(Field("error", TOpt(TNamed("McpError")))) >>)

JsonRpcNotification ==
    Struct(<< Field("jsonrpc", TStr),
              Field("method", TStr),
              SkipNone(Field("params", TOpt(TValue))) >>)

RequestId ==
    Untagged(<< NewtypeVariant("String", "s", TStr),
                NewtypeVariant("Number", "n", TI64),
                UntaggedUnit("Null") >>)

ToolsCapability ==
    Struct(<< SkipNone(Field("list_changed", TOpt(TBool))) >>)

ResourcesCapability ==
    Struct(<< SkipNone(Field("subscribe", TOpt(TBool))),
              SkipNone(Field("list_changed", TOpt(TBool))) >>)

PromptsCapability ==
    Struct(<< SkipNone(Field("list_changed", TOpt(TBool))) >>)

LoggingCapability == Struct(<< >>)

RootsCapability ==
    Struct(<< SkipNone(Field("list_changed", TOpt(TBool))) >>)

SamplingCapability == Struct(<< >>)

ServerCapabilities ==
    Struct(<< SkipNone(Field("tools", TOpt(TNamed("ToolsCapability")))),
              SkipNone(Field("resources", TOpt(TNamed("ResourcesCapability")))),
              SkipNone(Field("prompts", TOpt(TNamed("PromptsCapability")))),
              SkipNone(Field("logging", TOpt(TNamed("LoggingCapability")))),
              SkipNone(Field("experimental", TOpt(TMap))) >>)

ClientCapabilities ==
    Struct(<< SkipNone(Field("roots", TOpt(TNamed("RootsCapability")))),
              SkipNone(Field("sampling", TOpt(TNamed("SamplingCapability")))),
              SkipNone(Field("experimental", TOpt(TMap))) >>)

Implementation ==
    Struct(<< Field("name", TStr), Field("version", TStr) >>)

InitializeParams ==
    Struct(<< Rename("protocolVersion", Field("protocol_version", TStr)),
              Field("capabilities", TNamed("ClientCapabilities")),
              Rename("clientInfo", Field("client_info", TNamed("Implementation"))) >>)

InitializeResult ==
    Struct(<< Rename("protocolVersion", Field("protocol_version", TStr)),
              Field("capabilities", TNamed("ServerCapabilities")),
              Rename("serverInfo", Field("server_info", TNamed("Implementation"))),
              SkipNone(Field("instructions", TOpt(TStr))) >>)

PingRequest == Struct(<< >>)
EmptyResult == Struct(<< >>)

(***************************************************************************)
(* errors.rs                                                               *)
(***************************************************************************)
ErrorCode ==
    UnitEnum(<< UnitVariant("ParseError", "-32700"),
                UnitVariant("InvalidRequest", "-32600"),
                UnitVariant("MethodNotFound", "-32601"),
                UnitVariant("InvalidParams", "-32602"),
                UnitVariant("InternalError", "-32603") >>)

McpError ==
    Struct(<< Field("code", TNamed("ErrorCode")),
              Field("message", TStr),
              SkipNone(Field("data", TOpt(TValue))) >>)

(***************************************************************************)
(* tools.rs                                                                *)
(***************************************************************************)
Tool ==
    Struct(<< Field("name", TStr),
              SkipNone(Field("description", TOpt(TStr))),
              Rename("inputSchema", Field("input_schema", TNamed("ToolInputSchema"))) >>)

ToolInputSchema ==
    Struct(<< Rename("type", Field("type_", TStr)),
              SkipNone(Field("properties", TOpt(TValue))),
              SkipNone(Field("required", TOpt(TVec(TStr)))),
              Flatten(Field("additional", TOpt(TValue))) >>)

ListToolsRequest ==
    Struct(<< SkipNone(Field("cursor", TOpt(TStr))) >>)

ListToolsResult ==
    Struct(<< Field("tools", TVec(TNamed("Tool"))),
              Rename("nextCursor", SkipNone(Field("next_cursor", TOpt(TStr)))) >>)

CallToolRequest ==
    Struct(<< Field("name", TStr),
              SkipNone(Field("arguments", TOpt(TValue))) >>)

CallToolResult ==
    Struct(<< Field("content", TVec(TNamed("ToolResultContent"))),
              Rename("isError", SkipNone(Field("is_error", TOpt(TBool)))) >>)

ToolResultContent ==
    Tagged("type",
        << StructVariant("Text", "text", << Field("text", TStr) >>),
           StructVariant("Image", "image",
               << Field("data", TStr),
                  Rename("mimeType", Field("mime_type", TStr)) >>),
           StructVariant("Resource", "resource", << Field("resource", TStr) >>) >>)

(***************************************************************************)
(* resources.rs                                                            *)
(***************************************************************************)
Resource ==
    Struct(<< Field("uri", TStr),
              SkipNone(Field("name", TOpt(TStr))),
              SkipNone(Field("description", TOpt(TStr))),
              Rename("mimeType", SkipNone(Field("mime_type", TOpt(TStr)))) >>)

ResourceTemplate ==
    Struct(<< Rename("uriTemplate", Field("uri_template", TStr)),
              SkipNone(Field("name", TOpt(TStr))),
              SkipNone(Field("description", TOpt(TStr))),
              Rename("mimeType", SkipNone(Field("mime_type", TOpt(TStr)))) >>)

ListResourcesRequest ==
    Struct(<< SkipNone(Field("cursor", TOpt(TStr))) >>)

ListResourcesResult ==
    Struct(<< Field("resources", TVec(TNamed("Resource"))),
              Rename("nextCursor", SkipNone(Field("next_cursor", TOpt(TStr)))) >>)

ReadResourceRequest == Struct(<< Field("uri", TStr) >>)

ReadResourceResult ==
    Struct(<< Field("contents", TVec(TNamed("ResourceContents"))) >>)

ResourceContents ==
    Tagged("type",
        << StructVariant("Text", "text",
               << Field("text", TStr),
                  Field("uri", TStr),
                  Rename("mimeType", SkipNone(Field("mime_type", TOpt(TStr)))) >>),
           StructVariant("Blob", "blob",
               << Field("blob", TStr),
                  Field("uri", TStr),
                  Rename("mimeType", SkipNone(Field("mime_type", TOpt(TStr)))) >>) >>)

(***************************************************************************)
(* prompts.rs                                                              *)
(***************************************************************************)
Prompt ==
    Struct(<< Field("name", TStr),
              SkipNone(Field("description", TOpt(TStr))),
              SkipNone(Field("arguments", TOpt(TVec(TNamed("PromptArgument"))))) >>)

PromptArgument ==
    Struct(<< Field("name", TStr),
              SkipNone(Field("description", TOpt(TStr))),
              SkipNone(Field("required", TOpt(TBool))) >>)

ListPromptsRequest ==
    Struct(<< SkipNone(Field("cursor", TOpt(TStr))) >>)

ListPromptsResult ==
    Struct(<< Field("prompts", TVec(TNamed("Prompt"))),
              Rename("nextCursor", SkipNone(Field("next_cursor", TOpt(TStr)))) >>)

GetPromptRequest ==
    Struct(<< Field("name", TStr),
              SkipNone(Field("arguments", TOpt(TValue))) >>)

GetPromptResult ==
    Struct(<< SkipNone(Field("description", TOpt(TStr))),
              Field("messages", TVec(TNamed("PromptMessage"))) >>)

PromptMessage ==
    Struct(<< Field("role", TNamed("PromptRole")),
              Field("content", TNamed("PromptContent")) >>)

PromptRole ==
    UnitEnum(<< UnitVariant("User", "user"),
                UnitVariant("Assistant", "assistant"),
                UnitVariant("System", "system") >>)

PromptContent ==
    Tagged("type",
        << StructVariant("Text", "text", << Field("text", TStr) >>),
           StructVariant("Image", "image",
               << Field("data", TStr),
                  Rename("mimeType", Field("mime_type", TStr)) >>),
           StructVariant("Resource", "resource", << Field("resource", TStr) >>) >>)

(***************************************************************************)
(* logging.rs                                                              *)
(***************************************************************************)
LoggingLevel ==
    UnitEnum(<< UnitVariant("Debug", "debug"),
                UnitVariant("Info", "info"),
                UnitVariant("Notice", "notice"),
                UnitVariant("Warning", "warning"),
                UnitVariant("Error", "error"),
                UnitVariant("Critical", "critical"),
                UnitVariant("Alert", "alert"),
                UnitVariant("Emergency", "emergency") >>)

LogEntry ==
    Struct(<< Field("level", TNamed("LoggingLevel")),
              Field("data", TValue),
              SkipNone(Field("logger", TOpt(TStr))) >>)

SetLoggingLevelRequest ==
    Struct(<< Field("level", TNamed("LoggingLevel")) >>)

(***************************************************************************)
(* sampling.rs                                                             *)
(***************************************************************************)
SamplingMessage ==
    Struct(<< Field("role", TNamed("MessageRole")),
              Field("content", TNamed("MessageContent")) >>)

MessageRole ==
    UnitEnum(<< UnitVariant("User", "user"),
                UnitVariant("Assistant", "assistant"),
                UnitVariant("System", "system") >>)

MessageContent ==
    Tagged("type",
        << StructVariant("Text", "text", << Field("text", TStr) >>),
           StructVariant("Image", "image",
               << Field("data", TStr),
                  Rename("mimeType", Field("mime_type", TStr)) >>) >>)

CreateMessageRequest ==
    Struct(<< Field("messages", TVec(TNamed("SamplingMessage"))),
              Rename("modelPreferences",
                     SkipNone(Field("model_preferences", TOpt(TNamed("ModelPreferences"))))),
              Rename("systemPrompt", SkipNone(Field("system_prompt", TOpt(TStr)))),
              Rename("includeContext", SkipNone(Field("include_context", TOpt(TStr)))),
              SkipNone(Field("temperature", TOpt(TF64))),
              Rename("maxTokens", SkipNone(Field("max_tokens", TOpt(TI32)))),
              SkipNone(Field("stop", TOpt(TVec(TStr)))),
              SkipNone(Field("metadata", TOpt(TValue))) >>)

ModelPreferences ==
    Struct(<< SkipNone(Field("hints", TOpt(TVec(TNamed("ModelHint"))))),
              Rename("costPriority", SkipNone(Field("cost_priority", TOpt(TF64)))),
              Rename("speedPriority", SkipNone(Field("speed_priority", TOpt(TF64)))),
              Rename("intelligencePriority",
                     SkipNone(Field("intelligence_priority", TOpt(TF64)))) >>)

ModelHint == Struct(<< Field("name", TStr) >>)

CreateMessageResult ==
    Struct(<< Field("message", TNamed("SamplingMessage")),
              SkipNone(Field("model", TOpt(TStr))),
              Rename("stopReason", SkipNone(Field("stop_reason", TOpt(TStr)))) >>)

(***************************************************************************)
(* The types of the crate by name.                                         *)
(***************************************************************************)
TypeDef(n) ==
    CASE n = "JsonRpcRequest" -> JsonRpcRequest
      [] n = "JsonRpcResponse" -> JsonRpcResponse
      [] n = "JsonRpcNotification" -> JsonRpcNotification
      [] n = "RequestId" -> RequestId
      [] n = "ServerCapabilities" -> ServerCapabilities
      [] n = "ClientCapabilities" -> ClientCapabilities
      [] n = "ToolsCapability" -> ToolsCapability
      [] n = "ResourcesCapability" -> ResourcesCapability
      [] n = "PromptsCapability" -> PromptsCapability
      [] n = "LoggingCapability" -> LoggingCapability
      [] n = "RootsCapability" -> RootsCapability
      [] n = "SamplingCapability" -> SamplingCapability
      [] n = "Implementation" -> Implementation
      [] n = "InitializeParams" -> InitializeParams
      [] n = "InitializeResult" -> InitializeResult
      [] n = "PingRequest" -> PingRequest
      [] n = "EmptyResult" -> EmptyResult
      [] n = "ErrorCode" -> ErrorCode
      [] n = "McpError" -> McpError
      [] n = "Tool" -> Tool
      [] n = "ToolInputSchema" -> ToolInputSchema
      [] n = "ListToolsRequest" -> ListToolsRequest
      [] n = "ListToolsResult" -> ListToolsResult
      [] n = "CallToolRequest" -> CallToolRequest
      [] n = "CallToolResult" -> CallToolResult
      [] n = "ToolResultContent" -> ToolResultContent
      [] n = "Resource" -> Resource
      [] n = "ResourceTemplate" -> ResourceTemplate
      [] n = "ListResourcesRequest" -> ListResourcesRequest
      [] n = "ListResourcesResult" -> ListResourcesResult
      [] n = "ReadResourceRequest" -> ReadResourceRequest
      [] n = "ReadResourceResult" -> ReadResourceResult
      [] n = "ResourceContents" -> ResourceContents
      [] n = "Prompt" -> Prompt
      [] n = "PromptArgument" -> PromptArgument
      [] n = "ListPromptsRequest" -> ListPromptsRequest
      [] n = "ListPromptsResult" -> ListPromptsResult
      [] n = "GetPromptRequest" -> GetPromptRequest
      [] n = "GetPromptResult" -> GetPromptResult
      [] n = "PromptMessage" -> PromptMessage
      [] n = "PromptRole" -> PromptRole
      [] n = "PromptContent" -> PromptContent
      [] n = "LoggingLevel" -> LoggingLevel
      [] n = "LogEntry" -> LogEntry
      [] n = "SetLoggingLevelRequest" -> SetLoggingLevelRequest
      [] n = "SamplingMessage" -> SamplingMessage
      [] n = "MessageRole" -> MessageRole
      [] n = "MessageContent" -> MessageContent
      [] n = "CreateMessageRequest" -> CreateMessageRequest
      [] n = "ModelPreferences" -> ModelPreferences
      [] n = "ModelHint" -> ModelHint
      [] n = "CreateMessageResult" -> CreateMessageResult

(***************************************************************************)
(* Serialisation: serde's derived Serialize written by serde_json.         *)
(***************************************************************************)
Variant(d, name) ==
    d.variants[CHOOSE i \in 1..Len(d.variants) : d.variants[i].name = name]
HasWireName(d, w) == \E i \in 1..Len(d.variants) : d.variants[i].wire = w
VariantOfWire(d, w) ==
    d.variants[CHOOSE i \in 1..Len(d.variants) : d.variants[i].wire = w]
HasFlatten(fields) == \E i \in 1..Len(fields) : fields[i].flatten
FieldNames(fields) == {fields[i].name : i \in 1..Len(fields)}
FieldOfName(fields, n) == fields[CHOOSE i \in 1..Len(fields) : fields[i].name = n]

RECURSIVE Serialize(_, _), SerializeFields(_, _), SerializeFlat(_, _)
RECURSIVE Deserialize(_, _), DeserializeMap(_, _), DeserializeSeq(_, _),
          DeserializeFlat(_, _)

\* a #[serde(flatten)] field: its entries are written into the enclosing
\* object; a value that is no map cannot be flattened
SerializeFlat(t, x) ==
    CASE t.k = "opt" -> IF x.some THEN SerializeFlat(t.of, x.v) ELSE Ok(<< >>)
      [] t.k = "value" ->
            CASE x.t = "obj" -> Ok(ToWire(x).kv)
              [] x.t = "null" -> Ok(<< >>)
              [] OTHER -> Err("can only flatten structs and maps")
      [] t.k = "map" -> Ok(ToWire(VObj(x)).kv)
      [] t.k = "named" /\ TypeDef(t.name).kind = "struct" ->
            SerializeFields(TypeDef(t.name).fields, x)
      [] OTHER -> Err("can only flatten structs and maps")

\* the entries written for the fields of v, in declaration order
SerializeFields(fields, v) ==
    IF fields = << >> THEN Ok(<< >>)
    ELSE LET f == Head(fields)
             x == v[f.name]
             here == IF f.flatten THEN SerializeFlat(f.type, x)
                     ELSE IF f.skip /\ ~x.some THEN Ok(<< >>)
                     ELSE LET r == Serialize(f.type, x)
                          IN IF r.ok THEN Ok(<< Entry(f.key, r.v) >>) ELSE r
             rest == SerializeFields(Tail(fields), v)
         IN IF ~here.ok THEN here
            ELSE IF ~rest.ok THEN rest
            ELSE Ok(here.v \o rest.v)

Serialize(t, v) ==
    CASE t.k = "str" -> Ok(JStr(v))
      [] t.k = "bool" -> Ok(JBool(v))
      [] t.k \in {"i64", "i32"} -> Ok(JInt(v))
      [] t.k = "f64" -> Ok(v)
      [] t.k = "value" -> Ok(ToWire(v))
      [] t.k = "map" -> Ok(ToWire(VObj(v)))
      [] t.k = "opt" -> IF v.some THEN Serialize(t.of, v.v) ELSE Ok(JNull)
      [] t.k = "vec" ->
            LET r == [i \in 1..Len(v) |-> Serialize(t.of, v[i])]
            IN IF \E i \in 1..Len(v) : ~r[i].ok
               THEN r[CHOOSE i \in 1..Len(v) : ~r[i].ok]
               ELSE Ok(JArr([i \in 1..Len(v) |-> r[i].v]))
      [] t.k = "named" ->
            LET d == TypeDef(t.name) IN
            CASE d.kind = "struct" ->
                    LET r == SerializeFields(d.fields, v)
                    IN IF r.ok THEN Ok(JObj(r.v)) ELSE r
              [] d.kind = "unit_enum" -> Ok(JStr(Variant(d, v).wire))
              [] d.kind = "untagged" ->
                    LET var == Variant(d, v.variant)
                    IN IF var.unit THEN Ok(JNull) ELSE Serialize(var.type, v[var.slot])
              [] d.kind = "tagged" ->
                    LET var == Variant(d, v.variant)
                        r == SerializeFields(var.fields, v)
                    IN IF r.ok THEN Ok(JObj(<< Entry(d.tag, JStr(var.wire)) >> \o r.v))
                       ELSE r

(***************************************************************************)
(* Deserialisation: serde's derived Deserialize reading serde_json text.   *)
(***************************************************************************)
\* a #[serde(flatten)] field is read from the entries no other field took;
\* an Option is Some of whatever its inner type reads, None if that fails
DeserializeFlat(t, entries) ==
    CASE t.k = "opt" ->
            LET r == DeserializeFlat(t.of, entries)
            IN Ok(IF r.ok THEN Some(r.v) ELSE None)
      [] t.k = "value" -> Ok(ToValue(JObj(entries)))
      [] t.k = "map" -> Ok(ToValue(JObj(entries)).m)
      [] t.k = "named" /\ TypeDef(t.name).kind = "struct" ->
            DeserializeMap(TypeDef(t.name).fields, entries)
      [] OTHER -> Err("can only flatten structs and maps")

\* a struct read from the entries of an object: a repeated key of a field
\* and a value of the wrong type fail where they are met, a key of no
\* field is ignored, a field with no entry is None if it is an Option and
\* fails otherwise
DeserializeMap(fields, kv) ==
    LET own == {i \in 1..Len(fields) : ~fields[i].flatten}
        keys == {fields[i].key : i \in own}
        FieldOfKey(k) == fields[CHOOSE i \in own : fields[i].key = k]
        present == {kv[e].k : e \in 1..Len(kv)}
        dup(e) == \E h \in 1..(e-1) : kv[h].k = kv[e].k
        read(e) == Deserialize(FieldOfKey(kv[e].k).type, kv[e].v)
        bad == {e \in 1..Len(kv) : kv[e].k \in keys /\ (dup(e) \/ ~read(e).ok)}
        firstBad == CHOOSE e \in bad : \A h \in bad : e <= h
        missing == {i \in own : fields[i].key \notin present /\ fields[i].type.k # "opt"}
        others == SelectSeq(kv, LAMBDA e : e.k \notin keys)
        flat == [i \in {h \in 1..Len(fields) : fields[h].flatten} |->
                    DeserializeFlat(fields[i].type, others)]
        valueOf(f) ==
            IF f.flatten
            THEN DeserializeFlat(f.type, others).v
            ELSE IF f.key \in present
                 THEN Deserialize(f.type, Get(JObj(kv), f.key)).v
                 ELSE None
    IN IF bad # {}
       THEN (IF dup(firstBad) THEN Err("duplicate field") ELSE read(firstBad))
       ELSE IF missing # {} THEN Err("missing field")
       ELSE IF \E i \in DOMAIN flat : ~flat[i].ok
            THEN flat[CHOOSE i \in DOMAIN flat : ~flat[i].ok]
       ELSE Ok([n \in FieldNames(fields) |-> valueOf(FieldOfName(fields, n))])

\* a struct read from the elements of an array, one per field, in order
DeserializeSeq(fields, a) ==
    LET read(i) == Deserialize(fields[i].type, a[i])
        n == IF Len(a) < Len(fields) THEN Len(a) ELSE Len(fields)
        bad == {i \in 1..n : ~read(i).ok}
    IN IF bad # {} THEN read(CHOOSE i \in bad : \A h \in bad : i <= h)
       ELSE IF Len(a) < Len(fields) THEN Err("invalid length")
       ELSE IF Len(a) > Len(fields) THEN Err("trailing characters")
       ELSE Ok([m \in FieldNames(fields) |->
                   read(CHOOSE i \in 1..Len(fields) : fields[i].name = m).v])

\* a variant's fields joined with the name of the variant
WithVariant(name, rec) ==
    [n \in {"variant"} \cup DOMAIN rec |-> IF n = "variant" THEN name ELSE rec[n]]

\* the tag of an internally tagged enum: a string naming a variant
DeserializeTag(d, j) ==
    IF j.t # "str" THEN Err("invalid type")
    ELSE IF ~HasWireName(d, j.s) THEN Err("unknown variant")
    ELSE Ok(VariantOfWire(d, j.s))

Deserialize(t, j) ==
    CASE t.k = "str" -> IF j.t = "str" THEN Ok(j.s) ELSE Err("invalid type")
      [] t.k = "bool" -> IF j.t = "bool" THEN Ok(j.b) ELSE Err("invalid type")
      [] t.k \in {"i64", "i32"} ->
            CASE j.t = "int" -> Ok(j.n)
              [] j.t = "uint" -> Err("invalid value")
              [] OTHER -> Err("invalid type")
      [] t.k = "f64" ->
            CASE j.t = "int" -> Ok(JFloat(j.n * 100))
              [] j.t = "float" -> Ok(j)
              [] j.t = "uint" -> Ok([t |-> "float", big |-> j.big])
              [] OTHER -> Err("invalid type")
      [] t.k = "value" -> Ok(ToValue(j))
      [] t.k = "map" -> IF j.t = "obj" THEN Ok(ToValue(j).m) ELSE Err("invalid type")
      [] t.k = "opt" ->
            IF j.t = "null" THEN Ok(None)
            ELSE LET r == Deserialize(t.of, j) IN IF r.ok THEN Ok(Some(r.v)) ELSE r
      [] t.k = "vec" ->
            IF j.t # "arr" THEN Err("invalid type")
            ELSE LET r == [i \in 1..Len(j.a) |-> Deserialize(t.of, j.a[i])]
                     bad == {i \in 1..Len(j.a) : ~r[i].ok}
                 IN IF bad # {} THEN r[CHOOSE i \in bad : \A h \in bad : i <= h]
                    ELSE Ok([i \in 1..Len(j.a) |-> r[i].v])
      [] t.k = "named" ->
            LET d == TypeDef(t.name) IN
            CASE d.kind = "struct" ->
                    CASE j.t = "obj" -> DeserializeMap(d.fields, j.kv)
                      [] j.t = "arr" /\ ~HasFlatten(d.fields) -> DeserializeSeq(d.fields, j.a)
                      [] OTHER -> Err("invalid type")
              [] d.kind = "unit_enum" ->
                    CASE j.t = "str" ->
                            IF HasWireName(d, j.s) THEN Ok(VariantOfWire(d, j.s).name)
                            ELSE Err("unknown variant")
                      [] j.t = "obj" ->
                            IF Len(j.kv) # 1 THEN Err("invalid value")
                            ELSE IF ~HasWireName(d, j.kv[1].k) THEN Err("unknown variant")
                            ELSE IF j.kv[1].v.t # "null" THEN Err("invalid type")
                            ELSE Ok(VariantOfWire(d, j.kv[1].k).name)
                      [] OTHER -> Err("invalid type")
              [] d.kind = "untagged" ->
                    LET fits(i) ==
                            IF d.variants[i].unit THEN j.t = "null"
                            ELSE Deserialize(d.variants[i].type, j).ok
                        matching == {i \in 1..Len(d.variants) : fits(i)}
                    IN IF matching = {}
                       THEN Err("data did not match any variant")
                       ELSE LET var == d.variants[CHOOSE i \in matching :
                                                      \A h \in matching : i <= h]
                            IN IF var.unit THEN Ok([variant |-> var.name])
                               ELSE Ok([n \in {"variant", var.slot} |->
                                           IF n = "variant" THEN var.name
                                           ELSE Deserialize(var.type, j).v])
              [] d.kind = "tagged" ->
                    CASE j.t = "obj" ->
                            LET tags == {e \in 1..Len(j.kv) : j.kv[e].k = d.tag}
                                first == CHOOSE e \in tags : \A h \in tags : e <= h
                                tag == DeserializeTag(d, j.kv[first].v)
                                content == SelectSeq(j.kv, LAMBDA e : e.k # d.tag)
                                r == DeserializeMap(tag.v.fields, content)
                            IN IF tags = {} THEN Err("missing field")
                               ELSE IF ~tag.ok THEN tag
                               ELSE IF Cardinality(tags) > 1 THEN Err("duplicate field")
                               ELSE IF r.ok THEN Ok(WithVariant(tag.v.name, r.v)) ELSE r
                      [] j.t = "arr" ->
                            LET tag == DeserializeTag(d, j.a[1])
                                r == DeserializeSeq(tag.v.fields, Tail(j.a))
                            IN IF Len(j.a) = 0 THEN Err("invalid length")
                               ELSE IF ~tag.ok THEN tag
                               ELSE IF r.ok THEN Ok(WithVariant(tag.v.name, r.v)) ELSE r
                      [] OTHER -> Err("invalid type")

(***************************************************************************)
(* serde_json::to_string and serde_json::from_str at a named type.         *)
(***************************************************************************)
to_string(n, v) == Serialize(TNamed(n), v)
\* a decoder that takes a key with a null value as present: it rejects null
\* under the key of an Option field instead of reading it as None
from_str_null_is_present(n, j) ==
    IF /\ TypeDef(n).kind = "struct"
       /\ j.t = "obj"
       /\ \E i \in 1..Len(TypeDef(n).fields) :
               /\ TypeDef(n).fields[i].type.k = "opt"
               /\ HasKey(j, TypeDef(n).fields[i].key)
               /\ Get(j, TypeDef(n).fields[i].key).t = "null"
    THEN Err("invalid type")
    ELSE Deserialize(TNamed(n), j)

from_str(n, j) == Deserialize(TNamed(n), j)

(***************************************************************************)
(* Constructors.                                                           *)
(***************************************************************************)
IdString(s) == [variant |-> "String", s |-> s]
IdNumber(n) == [variant |-> "Number", n |-> n]
IdNull == [variant |-> "Null"]

JsonRpcRequest_new(id, method) ==
    [jsonrpc |-> JSONRPC_VERSION, id |-> id, method |-> method, params |-> None]

JsonRpcRequest_with_params(id, method, params) ==
    [jsonrpc |-> JSONRPC_VERSION, id |-> id, method |-> method, params |-> Some(params)]

JsonRpcResponse_success(id, result) ==
    [jsonrpc |-> JSONRPC_VERSION, id |-> id, result |-> Some(result), error |-> None]

JsonRpcResponse_error(id, error) ==
    [jsonrpc |-> JSONRPC_VERSION, id |-> id, result |-> None, error |-> Some(error)]

JsonRpcNotification_new(method) ==
    [jsonrpc |-> JSONRPC_VERSION, method |-> method, params |-> None]

JsonRpcNotification_with_params(method, params) ==
    [jsonrpc |-> JSONRPC_VERSION, method |-> method, params |-> Some(params)]

McpError_new(code, message) ==
    [code |-> code, message |-> message, data |-> None]

McpError_with_data(code, message, data) ==
    [code |-> code, message |-> message, data |-> Some(data)]

McpError_parse_error(message) == McpError_new("ParseError", message)

McpError_invalid_request(message) == McpError_new("InvalidRequest", message)

\* format!("Method not found: {}", method)
McpError_method_not_found(method) ==
    McpError_new("MethodNotFound", "Method not found: " \o method)

McpError_invalid_params(message) == McpError_new("InvalidParams", message)

McpError_internal_error(message) == McpError_new("InternalError", message)

Tool_new(name, description) ==
    [name |-> name,
     description |-> Some(description),
     input_schema |-> [type_ |-> "object", properties |-> None, required |-> None,
                       additional |-> None]]

\* self.with_parameter(name, description, required): properties is created
\* if None, the parameter is inserted if properties is an object (an entry
\* of the same name is replaced), and the name is pushed on required,
\* created if None, when required is set
Tool_with_parameter(self, name, description, required) ==
    LET schema == self.input_schema
        created == IF ~schema.properties.some THEN Some(VObj(EmptyMap))
                   ELSE schema.properties
        parameter == VObj([type |-> JStr("string"), description |-> JStr(description)])
        props == created.v.m
        inserted == [k \in DOMAIN props \cup {name} |->
                        IF k = name THEN parameter ELSE props[k]]
        properties == IF created.v.t = "obj" THEN Some(VObj(inserted)) ELSE created
        req == IF schema.required.some THEN schema.required.v ELSE << >>
        pushed == IF required THEN Some(Append(req, name)) ELSE schema.required
    IN [self EXCEPT !.input_schema =
            [schema EXCEPT !.properties = properties, !.required = pushed]]

\* impl Default for ServerCapabilities
ServerCapabilities_default ==
    [tools |-> None, resources |-> None, prompts |-> None, logging |-> None,
     experimental |-> None]

\* impl Default for ClientCapabilities
ClientCapabilities_default ==
    [roots |-> None, sampling |-> None, experimental |-> None]

(***************************************************************************)
(* Input domains.  Level 0 is the widest; a struct nested in another draws *)
(* its fields one level up, and from level 2 on a nested struct is one of  *)
(* two values: every Option None and every Vec empty, or every Option Some *)
(* and every Vec of one element.                                           *)
(***************************************************************************)
Strings(L) == IF L = 0 THEN {"a", "b"} ELSE {"a"}
Numbers(L) == IF L = 0 THEN 0..MaxNumber ELSE {0}
Floats(L) == IF L = 0 THEN {JFloat(50), JFloat(100)} ELSE {JFloat(50)}
JsonValues(L) ==
    IF L = 0
    THEN {JNull, JBool(TRUE), JStr("x"), JArr(<< >>), VObj(EmptyMap),
          VObj([success |-> JBool(TRUE)]), VObj([type |-> JStr("x")])}
         \cup {JInt(n) : n \in 0..MaxNumber}
    ELSE {JNull, VObj(EmptyMap), VObj([title |-> JStr("x")])}
Maps(L) == IF L = 0 THEN {EmptyMap, [x |-> JBool(TRUE)]} ELSE {[x |-> JBool(TRUE)]}
SeqsUpTo(S, n) == UNION {[1..k -> S] : k \in 0..n}
EmptyRecord == [k \in {} |-> JNull]
Extend(r, n, x) == [k \in DOMAIN r \cup {n} |-> IF k = n THEN x ELSE r[k]]

RECURSIVE MinValue(_), FullValue(_), Values(_, _), Records(_, _)

MinValue(t) ==
    CASE t.k = "str" -> "a"
      [] t.k = "bool" -> FALSE
      [] t.k \in {"i64", "i32"} -> 0
      [] t.k = "f64" -> JFloat(50)
      [] t.k = "value" -> JNull
      [] t.k = "map" -> EmptyMap
      [] t.k = "opt" -> None
      [] t.k = "vec" -> << >>
      [] t.k = "named" ->
            LET d == TypeDef(t.name) IN
            CASE d.kind = "struct" ->
                    [n \in FieldNames(d.fields) |-> MinValue(FieldOfName(d.fields, n).type)]
              [] d.kind = "unit_enum" -> d.variants[1].name
              [] d.kind = "untagged" ->
                    [n \in {"variant", d.variants[1].slot} |->
                        IF n = "variant" THEN d.variants[1].name
                        ELSE MinValue(d.variants[1].type)]
              [] d.kind = "tagged" ->
                    WithVariant(d.variants[1].name,
                        [n \in FieldNames(d.variants[1].fields) |->
                            MinValue(FieldOfName(d.variants[1].fields, n).type)])

FullValue(t) ==
    CASE t.k = "str" -> "b"
      [] t.k = "bool" -> TRUE
      [] t.k \in {"i64", "i32"} -> 1
      [] t.k = "f64" -> JFloat(100)
      [] t.k = "value" -> VObj([title |-> JStr("x")])
      [] t.k = "map" -> [x |-> JBool(TRUE)]
      [] t.k = "opt" -> Some(FullValue(t.of))
      [] t.k = "vec" -> << FullValue(t.of) >>
      [] t.k = "named" ->
            LET d == TypeDef(t.name)
                last == d.variants[Len(d.variants)]
            IN
            CASE d.kind = "struct" ->
                    [n \in FieldNames(d.fields) |-> FullValue(FieldOfName(d.fields, n).type)]
              [] d.kind = "unit_enum" -> last.name
              [] d.kind = "untagged" ->
                    IF last.unit THEN [variant |-> last.name]
                    ELSE [n \in {"variant", last.slot} |->
                            IF n = "variant" THEN last.name ELSE FullValue(last.type)]
              [] d.kind = "tagged" ->
                    WithVariant(last.name,
                        [n \in FieldNames(last.fields) |->
                            FullValue(FieldOfName(last.fields, n).type)])

\* the records over `fields`, each field drawn from its type's values at level L
Records(fields, L) ==
    IF fields = << >> THEN {EmptyRecord}
    ELSE {Extend(r, Head(fields).name, x) :
            r \in Records(Tail(fields), L), x \in Values(Head(fields).type, L)}

Values(t, L) ==
    CASE t.k = "str" -> Strings(L)
      [] t.k = "bool" -> BOOLEAN
      [] t.k \in {"i64", "i32"} -> Numbers(L)
      [] t.k = "f64" -> Floats(L)
      [] t.k = "value" -> JsonValues(L)
      [] t.k = "map" -> Maps(L)
      [] t.k = "opt" -> {None} \cup {Some(x) : x \in Values(t.of, L)}
      [] t.k = "vec" -> SeqsUpTo(Values(t.of, L), MaxItems)
      [] t.k = "named" ->
            LET d == TypeDef(t.name) IN
            CASE d.kind = "struct" ->
                    IF L >= 1 THEN {MinValue(t), FullValue(t)}
                    ELSE Records(d.fields, L + 1)
              [] d.kind = "unit_enum" ->
                    {d.variants[i].name : i \in 1..Len(d.variants)}
              [] d.kind = "untagged" ->
                    UNION {IF d.variants[i].unit
                           THEN {[variant |-> d.variants[i].name]}
                           ELSE {[n \in {"variant", d.variants[i].slot} |->
                                     IF n = "variant" THEN d.variants[i].name ELSE x] :
                                 x \in Values(d.variants[i].type, L)} :
                           i \in 1..Len(d.variants)}
              [] d.kind = "tagged" ->
                    UNION {{WithVariant(d.variants[i].name, r) :
                                r \in Records(d.variants[i].fields, L)} :
                           i \in 1..Len(d.variants)}

TypeNames ==
    {"JsonRpcRequest", "JsonRpcResponse", "JsonRpcNotification", "RequestId",
     "ServerCapabilities", "ClientCapabilities", "ToolsCapability",
     "ResourcesCapability", "PromptsCapability", "LoggingCapability",
     "RootsCapability", "SamplingCapability", "Implementation",
     "InitializeParams", "InitializeResult", "PingRequest", "EmptyResult",
     "ErrorCode", "McpError", "Tool", "ToolInputSchema", "ListToolsRequest",
     "ListToolsResult", "CallToolRequest", "CallToolResult", "ToolResultContent",
     "Resource", "ResourceTemplate", "ListResourcesRequest", "ListResourcesResult",
     "ReadResourceRequest", "ReadResourceResult", "ResourceContents", "Prompt",
     "PromptArgument", "ListPromptsRequest", "ListPromptsResult", "GetPromptRequest",
     "GetPromptResult", "PromptMessage", "PromptRole", "PromptContent",
     "LoggingLevel", "LogEntry", "SetLoggingLevelRequest", "SamplingMessage",
     "MessageRole", "MessageContent", "CreateMessageRequest", "ModelPreferences",
     "ModelHint", "CreateMessageResult"}

\* the values a caller may build by writing the fields of type n directly
StartLevel(n) == IF n = "CreateMessageRequest" THEN 1 ELSE 0
Assignable(n) ==
    IF TypeDef(n).kind = "struct"
    THEN Records(TypeDef(n).fields, StartLevel(n))
    ELSE Values(TNamed(n), 0)
AssignableValues == [n \in TypeNames |-> Assignable(n)]

Ids == Values(TNamed("RequestId"), 0)
Methods == {"tools/list", "ping"}
Messages == {"Missing required field", ""}
Codes == Values(TNamed("ErrorCode"), 0)
ParameterNames == {"p", "q"}
Errors == AssignableValues["McpError"]

(***************************************************************************)
(* JSON a peer may send: for an object, every key is absent or carries one *)
(* of the candidate values; a few texts beside those (a repeated key, the  *)
(* array form, a bare scalar).                                             *)
(***************************************************************************)
Cand(k, vs) == [k |-> k, vs |-> vs]
RECURSIVE EntrySeqs(_)
EntrySeqs(cands) ==
    IF cands = << >> THEN {<< >>}
    ELSE LET rest == EntrySeqs(Tail(cands))
         IN rest \cup {<< Entry(Head(cands).k, v) >> \o r : v \in Head(cands).vs, r \in rest}
Objects(cands) == {JObj(kv) : kv \in EntrySeqs(cands)}

ErrorObject(code) == JObj(<< Entry("code", code), Entry("message", JStr("m")) >>)

IdTexts ==
    {JStr("abc"), JInt(42), JInt(-1), JNull, JFloat(314), JBigUint, JBool(TRUE),
     JArr(<< JInt(1), JInt(2) >>), JArr(<< >>), JObj(<< >>),
     JObj(<< Entry("id", JInt(1)) >>)}
    \cup {JInt(n) : n \in 0..MaxNumber}

ErrorCodeTexts ==
    {JInt(-32700), JInt(-32600), JInt(-32601), JInt(-32602), JInt(-32603),
     JStr("-32700"), JStr("-32600"), JStr("-32601"), JStr("-32602"), JStr("-32603"),
     JStr("ParseError"), JStr("InvalidRequest"), JStr("MethodNotFound"),
     JStr("InvalidParams"), JStr("InternalError"), JInt(0), JNull,
     JObj(<< Entry("-32700", JNull) >>)}

ResponseTexts ==
    Objects(<< Cand("jsonrpc", {JStr("2.0")}),
               Cand("id", {JStr("x"), JInt(1), JNull}),
               Cand("result", {JObj(<< >>), JInt(1), JNull}),
               Cand("error", {ErrorObject(JStr("-32600")), ErrorObject(JInt(-32600)),
                              JNull}) >>)

RequestTexts ==
    Objects(<< Cand("jsonrpc", {JStr("2.0")}),
               Cand("id", {JStr("x"), JInt(1), JNull, JFloat(314)}),
               Cand("method", {JStr("tools/list")}),
               Cand("params", {JObj(<< >>), JNull}) >>)

ContentTexts ==
    Objects(<< Cand("type", {JStr("text"), JStr("image"), JStr("resource"),
                             JStr("blob"), JStr("bogus"), JInt(0)}),
               Cand("text", {JStr("hi")}),
               Cand("data", {JStr("QQ==")}),
               Cand("mimeType", {JStr("image/png"), JNull}),
               Cand("resource", {JStr("file:///a")}),
               Cand("blob", {JStr("QQ==")}),
               Cand("uri", {JStr("file:///a")}) >>)
    \cup {JObj(<< Entry("text", JStr("hi")), Entry("type", JStr("text")) >>),
          JObj(<< Entry("type", JStr("text")), Entry("type", JStr("image")),
                  Entry("text", JStr("hi")) >>),
          JObj(<< Entry("type", JStr("text")), Entry("text", JStr("hi")),
                  Entry("text", JStr("ho")) >>),
          JObj(<< Entry("type", JStr("text")), Entry("text", JInt(1)) >>),
          JArr(<< JStr("text"), JStr("hi") >>),
          JStr("text"), JNull}

SchemaTexts ==
    Objects(<< Cand("type", {JStr("object")}),
               Cand("properties", {JObj(<< >>), JNull}),
               Cand("required", {JArr(<< JStr("p") >>)}),
               Cand("title", {JStr("x")}),
               Cand("additionalProperties", {JBool(FALSE)}) >>)

CapabilityTexts ==
    Objects(<< Cand("listChanged", {JBool(TRUE), JBool(FALSE)}),
               Cand("list_changed", {JBool(TRUE), JBool(FALSE)}),
               Cand("subscribe", {JBool(TRUE)}) >>)

FlagCapabilities ==
    {"ToolsCapability", "ResourcesCapability", "PromptsCapability", "RootsCapability"}

ContentUnions == {"ToolResultContent", "PromptContent", "ResourceContents", "MessageContent"}

PeerTypes ==
    {"RequestId", "ErrorCode", "JsonRpcResponse", "JsonRpcRequest", "JsonRpcNotification"}
    \cup ContentUnions \cup FlagCapabilities \cup {"ToolInputSchema"}

PeerTexts(n) ==
    CASE n = "RequestId" -> IdTexts
      [] n = "ErrorCode" -> ErrorCodeTexts
      [] n = "JsonRpcResponse" -> ResponseTexts
      [] n \in {"JsonRpcRequest", "JsonRpcNotification"} -> RequestTexts
      [] n \in ContentUnions -> ContentTexts
      [] n \in FlagCapabilities -> CapabilityTexts
      [] n = "ToolInputSchema" -> SchemaTexts
PeerMessages == [n \in PeerTypes |-> PeerTexts(n)]

(***************************************************************************)
(* The state machine.                                                      *)
(***************************************************************************)
NoValue == [none |-> TRUE]

Init ==
    /\ ty = "none"
    /\ origin = "none"
    /\ args = NoValue
    /\ val = NoValue
    /\ wire = NoValue
    /\ back = NoValue
    /\ phase = "idle"

\* a constructor `by` of type n, called with `a`, returned v
Built(n, by, a, v) ==
    /\ ty' = n
    /\ origin' = by
    /\ args' = a
    /\ val' = v
    /\ wire' = NoValue
    /\ back' = NoValue
    /\ phase' = "built"

NewRequest ==
    /\ phase = "idle"
    /\ \E id \in Ids, method \in Methods :
            Built("JsonRpcRequest", "JsonRpcRequest::new",
                  [id |-> id, method |-> method],
                  JsonRpcRequest_new(id, method))

RequestWithParams ==
    /\ phase = "idle"
    /\ \E id \in Ids, method \in Methods, params \in JsonValues(0) :
            Built("JsonRpcRequest", "JsonRpcRequest::with_params",
                  [id |-> id, method |-> method, params |-> params],
                  JsonRpcRequest_with_params(id, method, params))

ResponseSuccess ==
    /\ phase = "idle"
    /\ \E id \in Ids, result \in JsonValues(0) :
            Built("JsonRpcResponse", "JsonRpcResponse::success",
                  [id |-> id, result |-> result],
                  JsonRpcResponse_success(id, result))

ResponseError ==
    /\ phase = "idle"
    /\ \E id \in Ids, error \in Errors :
            Built("JsonRpcResponse", "JsonRpcResponse::error",
                  [id |-> id, error |-> error],
                  JsonRpcResponse_error(id, error))

NewNotification ==
    /\ phase = "idle"
    /\ \E method \in Methods :
            Built("JsonRpcNotification", "JsonRpcNotification::new",
                  [method |-> method],
                  JsonRpcNotification_new(method))

NotificationWithParams ==
    /\ phase = "idle"
    /\ \E method \in Methods, params \in JsonValues(0) :
            Built("JsonRpcNotification", "JsonRpcNotification::with_params",
                  [method |-> method, params |-> params],
                  JsonRpcNotification_with_params(method, params))

NewError ==
    /\ phase = "idle"
    /\ \E code \in Codes, message \in Messages :
            Built("McpError", "McpError::new",
                  [code |-> code, message |-> message],
                  McpError_new(code, message))

ErrorWithData ==
    /\ phase = "idle"
    /\ \E code \in Codes, message \in Messages, data \in JsonValues(0) :
            Built("McpError", "McpError::with_data",
                  [code |-> code, message |-> message, data |-> data],
                  McpError_with_data(code, message, data))

ParseError ==
    /\ phase = "idle"
    /\ \E message \in Messages :
            Built("McpError", "McpError::parse_error",
                  [message |-> message], McpError_parse_error(message))

InvalidRequest ==
    /\ phase = "idle"
    /\ \E message \in Messages :
            Built("McpError", "McpError::invalid_request",
                  [message |-> message], McpError_invalid_request(message))

MethodNotFound ==
    /\ phase = "idle"
    /\ \E method \in Methods :
            Built("McpError", "McpError::method_not_found",
                  [message |-> method], McpError_method_not_found(method))

InvalidParams ==
    /\ phase = "idle"
    /\ \E message \in Messages :
            Built("McpError", "McpError::invalid_params",
                  [message |-> message], McpError_invalid_params(message))

InternalError ==
    /\ phase = "idle"
    /\ \E message \in Messages :
            Built("McpError", "McpError::internal_error",
                  [message |-> message], McpError_internal_error(message))

NewTool ==
    /\ phase = "idle"
    /\ \E name \in Strings(1), description \in Strings(0) :
            Built("Tool", "Tool::new",
                  [name |-> name, description |-> description, calls |-> << >>],
                  Tool_new(name, description))

\* tool.with_parameter(name, description, required) on a tool under
\* construction; args.calls keeps the calls made so far
WithParameter ==
    /\ phase = "built"
    /\ origin \in {"Tool::new", "Tool::with_parameter"}
    /\ Len(args.calls) < MaxCalls
    /\ \E name \in ParameterNames, description \in Strings(0), required \in BOOLEAN :
            /\ val' = Tool_with_parameter(val, name, description, required)
            /\ args' = [args EXCEPT !.calls =
                            Append(@, [name |-> name, description |-> description,
                                       required |-> required])]
            /\ origin' = "Tool::with_parameter"
            /\ UNCHANGED << ty, wire, back, phase >>

DefaultServerCapabilities ==
    /\ phase = "idle"
    /\ Built("ServerCapabilities", "ServerCapabilities::default", NoValue,
             ServerCapabilities_default)

DefaultClientCapabilities ==
    /\ phase = "idle"
    /\ Built("ClientCapabilities", "ClientCapabilities::default", NoValue,
             ClientCapabilities_default)

\* a value written field by field (every field of every type is pub)
Assign ==
    /\ phase = "idle"
    /\ \E n \in TypeNames :
            \E v \in AssignableValues[n] : Built(n, "assigned", NoValue, v)

\* serde_json::to_string(&val)
Encode ==
    /\ phase = "built"
    /\ wire' = to_string(ty, val)
    /\ phase' = "encoded"
    /\ UNCHANGED <<ty, origin, args, val, back>>

\* JSON text arrives from a peer, to be read as type n
Receive ==
    /\ phase = "idle"
    /\ \E n \in PeerTypes :
            \E j \in PeerMessages[n] :
                /\ ty' = n
                /\ origin' = "peer"
                /\ args' = NoValue
                /\ val' = NoValue
                /\ wire' = Ok(j)
                /\ back' = NoValue
                /\ phase' = "encoded"

\* serde_json::from_str(&wire)
Decode ==
    /\ phase = "encoded"
    /\ wire.ok
    /\ back' = from_str(ty, wire.v)
    /\ phase' = "decoded"
    /\ UNCHANGED <<ty, origin, args, val, wire>>

\* the value and the text are dropped
Discard ==
    /\ phase # "idle"
    /\ ty' = "none"
    /\ origin' = "none"
    /\ args' = NoValue
    /\ val' = NoValue
    /\ wire' = NoValue
    /\ back' = NoValue
    /\ phase' = "idle"

Next ==
    \/ NewRequest
    \/ RequestWithParams
    \/ ResponseSuccess
    \/ ResponseError
    \/ NewNotification
    \/ NotificationWithParams
    \/ NewError
    \/ ErrorWithData
    \/ ParseError
    \/ InvalidRequest
    \/ MethodNotFound
    \/ InvalidParams
    \/ InternalError
    \/ NewTool
    \/ WithParameter
    \/ DefaultServerCapabilities
    \/ DefaultClientCapabilities
    \/ Assign
    \/ Encode
    \/ Receive
    \/ Decode
    \/ Discard

Spec == Init /\ [][Next]_vars

(***************************************************************************)
(* Properties.                                                             *)
(***************************************************************************)
\* the fields serde writes for value v of type n: those of the struct, or
\* those of the variant of an internally tagged enum
FieldsOf(n, v) ==
    CASE TypeDef(n).kind = "struct" -> TypeDef(n).fields
      [] TypeDef(n).kind = "tagged" -> Variant(TypeDef(n), v.variant).fields
      [] OTHER -> << >>
\* two JSON texts are the same up to the order of the keys of their objects
SameJson(a, b) == ToValue(a) = ToValue(b)
NoRepeatedKey(j) == Cardinality(WireKeys(j)) = Len(j.kv)

\* C1: JsonRpcResponse::success(id, r) has result = Some(r) and error None,
\* JsonRpcResponse::error(id, e) has error = Some(e) and result None: every
\* constructed response has exactly one of result and error populated.
C1_ResponseExclusive ==
    /\ origin = "JsonRpcResponse::success" =>
            /\ val.result = Some(args.result)
            /\ val.error = None
    /\ origin = "JsonRpcResponse::error" =>
            /\ val.error = Some(args.error)
            /\ val.result = None
    /\ origin \in {"JsonRpcResponse::success", "JsonRpcResponse::error"} =>
            val.result.some # val.error.some

C1_Witness ==
    /\ origin = "JsonRpcResponse::error"
    /\ phase = "built"
    /\ val.id = IdNull
    /\ val.error.some

\* C2: no response with both or neither of result and error crosses the
\* wire: a JSON object with both keys, or with neither, fails to decode as a
\* JsonRpcResponse, and a response assigned field by field with both or
\* neither populated is not encoded.
C2_NoBothOrNeither ==
    /\ (ty = "JsonRpcResponse" /\ phase = "decoded" /\ origin = "peer"
            /\ HasKey(wire.v, "result") = HasKey(wire.v, "error"))
        => ~back.ok
    /\ (ty = "JsonRpcResponse" /\ phase = "encoded" /\ origin = "assigned"
            /\ val.result.some = val.error.some)
        => ~wire.ok

\* the discriminant the source gives each variant of ErrorCode
ErrorCodeDiscriminant(c) ==
    CASE c = "ParseError" -> -32700
      [] c = "InvalidRequest" -> -32600
      [] c = "MethodNotFound" -> -32601
      [] c = "InvalidParams" -> -32602
      [] c = "InternalError" -> -32603

\* C3: each ErrorCode is encoded as the JSON integer of its code (a number,
\* not a string), and that JSON integer decodes to the named code.
C3_ErrorCodeInteger ==
    /\ (ty = "ErrorCode" /\ phase = "encoded" /\ origin = "assigned")
        => wire = Ok(JInt(ErrorCodeDiscriminant(val)))
    /\ (ty = "ErrorCode" /\ phase = "decoded" /\ origin = "peer" /\ wire.v.t = "int"
            /\ \E c \in Codes : wire.v.n = ErrorCodeDiscriminant(c))
        => /\ back.ok
           /\ ErrorCodeDiscriminant(back.v) = wire.v.n

\* C4: a JSON string decodes to RequestId::String, a JSON integer within
\* i64 to RequestId::Number, JSON null to RequestId::Null, and every other
\* JSON value (a float, an array, a boolean, an object, an integer beyond
\* i64) fails to decode; a RequestId is encoded as the bare string, integer
\* or null.
C4_RequestIdResolution ==
    /\ (ty = "RequestId" /\ phase = "decoded") =>
            CASE wire.v.t = "str" -> back = Ok(IdString(wire.v.s))
              [] wire.v.t = "int" -> back = Ok(IdNumber(wire.v.n))
              [] wire.v.t = "null" -> back = Ok(IdNull)
              [] OTHER -> ~back.ok
    /\ (ty = "RequestId" /\ phase = "encoded" /\ origin = "assigned") =>
            CASE val.variant = "String" -> wire = Ok(JStr(val.s))
              [] val.variant = "Number" -> wire = Ok(JInt(val.n))
              [] val.variant = "Null" -> wire = Ok(JNull)
              [] OTHER -> FALSE

C4_Witness ==
    /\ ty = "RequestId"
    /\ phase = "decoded"
    /\ wire.v = JFloat(314)
    /\ ~back.ok

\* C5: a request built by JsonRpcRequest::new or ::with_params and a
\* response built by JsonRpcResponse::success or ::error, over every
\* identifier and every JSON value as params or result (null included),
\* decodes from its encoding to itself, and the decoded value encodes to
\* the same JSON up to key order.
C5_EnvelopeRoundTrip ==
    (/\ phase = "decoded"
     /\ origin \in {"JsonRpcRequest::new", "JsonRpcRequest::with_params",
                    "JsonRpcResponse::success", "JsonRpcResponse::error"})
    => /\ back = Ok(val)
       /\ to_string(ty, back.v).ok
       /\ SameJson(to_string(ty, back.v).v, wire.v)

\* C6: an McpError built by McpError::new or McpError::with_data, over the
\* five codes and every JSON value as data (null included), decodes from
\* its encoding to itself.
C6_ErrorRoundTrip ==
    (phase = "decoded" /\ origin \in {"McpError::new", "McpError::with_data"})
    => back = Ok(val)

\* C7: every Tool is encoded, and decodes from its encoding to itself: name,
\* description, type, properties, required and additional are those of the
\* original, and an absent additional stays absent.
C7_ToolRoundTrip ==
    /\ (ty = "Tool" /\ origin = "assigned" /\ phase = "encoded") => wire.ok
    /\ (ty = "Tool" /\ origin = "assigned" /\ phase = "decoded") =>
            /\ back = Ok(val)
            /\ ~val.input_schema.additional.some =>
                    (back.ok /\ ~back.v.input_schema.additional.some)

\* the tags the four content unions are to accept, and the variant and the
\* fields each tag selects
ClosedTags(n) ==
    CASE n \in {"ToolResultContent", "PromptContent"} -> {"text", "image", "resource"}
      [] n = "ResourceContents" -> {"text", "blob"}
      [] n = "MessageContent" -> {"text", "image"}
VariantOfTag(tag) ==
    CASE tag = "text" -> "Text"
      [] tag = "image" -> "Image"
      [] tag = "resource" -> "Resource"
      [] tag = "blob" -> "Blob"
RequiredKeys(n, tag) ==
    CASE tag = "text" -> IF n = "ResourceContents" THEN {"text", "uri"} ELSE {"text"}
      [] tag = "image" -> {"data", "mimeType"}
      [] tag = "resource" -> {"resource"}
      [] tag = "blob" -> {"blob", "uri"}
TagEntries(j) == {i \in 1..Len(j.kv) : j.kv[i].k = "type"}
WellFormedContent(n, j) ==
    /\ NoRepeatedKey(j)
    /\ HasKey(j, "type")
    /\ Get(j, "type").t = "str"
    /\ Get(j, "type").s \in ClosedTags(n)
    /\ RequiredKeys(n, Get(j, "type").s) \subseteq WireKeys(j)
    /\ \A i \in 1..Len(j.kv) : j.kv[i].v.t = "str"

OptionalFields(fs) == {i \in 1..Len(fs) : fs[i].type.k = "opt"}
MandatoryKeys(n, v) ==
    {FieldsOf(n, v)[i].key :
        i \in (1..Len(FieldsOf(n, v))) \ OptionalFields(FieldsOf(n, v))}
    \cup (IF TypeDef(n).kind = "tagged" THEN {TypeDef(n).tag} ELSE {})

\* C9: the encoding of a structure has no key for an optional field that
\* is absent (so never a null literal for it), and when all its optional
\* fields are absent it has exactly the mandatory keys, each once.
\* JsonRpcRequest::new(id, method) encodes to exactly the keys jsonrpc, id,
\* method, and a CallToolResult whose is_error is absent to exactly the key
\* content.
C9_Omission ==
    /\ (/\ phase = "encoded"
        /\ origin # "peer"
        /\ wire.ok
        /\ TypeDef(ty).kind \in {"struct", "tagged"}) =>
            LET fs == FieldsOf(ty, val) IN
            /\ \A i \in OptionalFields(fs) :
                    ~val[fs[i].name].some => ~HasKey(wire.v, fs[i].key)
            /\ (\A i \in OptionalFields(fs) : ~val[fs[i].name].some) =>
                    /\ WireKeys(wire.v) = MandatoryKeys(ty, val)
                    /\ NoRepeatedKey(wire.v)
    /\ (phase = "encoded" /\ origin = "JsonRpcRequest::new") =>
            /\ wire.ok
            /\ WireKeys(wire.v) = {"jsonrpc", "id", "method"}
            /\ NoRepeatedKey(wire.v)
    /\ (/\ phase = "encoded"
        /\ origin = "assigned"
        /\ ty = "CallToolResult"
        /\ ~val.is_error.some) =>
            /\ wire.ok
            /\ WireKeys(wire.v) = {"content"}
            /\ NoRepeatedKey(wire.v)

C9_Witness ==
    /\ phase = "encoded"
    /\ ty = "CallToolResult"
    /\ ~val.is_error.some
    /\ Len(val.content) = 1
    /\ val.content[1].variant = "Text"
    /\ wire.ok
    /\ WireKeys(wire.v) = {"content"}

\* the multi-word field names of the source and their camelCase spelling
MultiWord ==
    {"protocol_version", "next_cursor", "mime_type", "input_schema", "is_error",
     "list_changed", "client_info", "server_info", "uri_template",
     "model_preferences", "system_prompt", "include_context", "max_tokens",
     "cost_priority", "speed_priority", "intelligence_priority", "stop_reason"}
CamelCase(n) ==
    CASE n = "protocol_version" -> "protocolVersion"
      [] n = "next_cursor" -> "nextCursor"
      [] n = "mime_type" -> "mimeType"
      [] n = "input_schema" -> "inputSchema"
      [] n = "is_error" -> "isError"
      [] n = "list_changed" -> "listChanged"
      [] n = "client_info" -> "clientInfo"
      [] n = "server_info" -> "serverInfo"
      [] n = "uri_template" -> "uriTemplate"
      [] n = "model_preferences" -> "modelPreferences"
      [] n = "system_prompt" -> "systemPrompt"
      [] n = "include_context" -> "includeContext"
      [] n = "max_tokens" -> "maxTokens"
      [] n = "cost_priority" -> "costPriority"
      [] n = "speed_priority" -> "speedPriority"
      [] n = "intelligence_priority" -> "intelligencePriority"
      [] n = "stop_reason" -> "stopReason"
Present(v, f) == IF f.type.k = "opt" THEN v[f.name].some ELSE TRUE

\* C10: every multi-word field is encoded under its camelCase key and never
\* under its snake_case name (protocolVersion, nextCursor, mimeType,
\* inputSchema, isError, and listChanged for the list_changed flag of
\* ToolsCapability, ResourcesCapability, PromptsCapability and
\* RootsCapability), and is decoded from the camelCase key.
C10_CamelCaseKeys ==
    /\ (/\ phase = "encoded"
        /\ origin = "assigned"
        /\ wire.ok
        /\ TypeDef(ty).kind \in {"struct", "tagged"}) =>
            LET fs == FieldsOf(ty, val) IN
            \A i \in 1..Len(fs) :
                fs[i].name \in MultiWord =>
                    /\ ~HasKey(wire.v, fs[i].name)
                    /\ Present(val, fs[i]) => HasKey(wire.v, CamelCase(fs[i].name))
    /\ (/\ phase = "decoded"
        /\ origin = "peer"
        /\ ty \in FlagCapabilities
        /\ NoRepeatedKey(wire.v)
        /\ HasKey(wire.v, "listChanged")) =>
            /\ back.ok
            /\ back.v.list_changed.some
            /\ JBool(back.v.list_changed.v) = Get(wire.v, "listChanged")

\* the code each convenience constructor of McpError is named after
CodeOfConstructor(by) ==
    CASE by = "McpError::parse_error" -> "ParseError"
      [] by = "McpError::invalid_request" -> "InvalidRequest"
      [] by = "McpError::method_not_found" -> "MethodNotFound"
      [] by = "McpError::invalid_params" -> "InvalidParams"
      [] by = "McpError::internal_error" -> "InternalError"
Conveniences ==
    {"McpError::parse_error", "McpError::invalid_request", "McpError::method_not_found",
     "McpError::invalid_params", "McpError::internal_error"}

\* C11 as stated: every constructor of McpError (new and the five
\* convenience constructors) yields the code it names or is given, the text
\* argument unchanged as the message, and no data.
C11_AsGiven ==
    /\ origin = "McpError::new" =>
            val = [code |-> args.code, message |-> args.message, data |-> None]
    /\ origin \in Conveniences =>
            val = [code |-> CodeOfConstructor(origin), message |-> args.message,
                   data |-> None]

\* C11, amended: McpError::new yields the code and the message given and no
\* data; parse_error, invalid_request, invalid_params and internal_error
\* yield their code, the message unchanged and no data; method_not_found
\* takes a method name and yields MethodNotFound, the message
\* "Method not found: " followed by that name, and no data.
C11_Constructors ==
    /\ origin = "McpError::new" =>
            val = [code |-> args.code, message |-> args.message, data |-> None]
    /\ origin \in Conveniences \ {"McpError::method_not_found"} =>
            val = [code |-> CodeOfConstructor(origin), message |-> args.message,
                   data |-> None]
    /\ origin = "McpError::method_not_found" =>
            val = [code |-> "MethodNotFound",
                   message |-> "Method not found: " \o args.message,
                   data |-> None]

C11_Witness ==
    /\ origin = "McpError::method_not_found"
    /\ phase = "built"
    /\ args.message = "ping"
    /\ val.message = "Method not found: ping"

Aggregates == {"ServerCapabilities", "ClientCapabilities"}
\* the fields of a capability aggregate that hold a sub-capability
SubCapabilities(n) ==
    {i \in 1..Len(TypeDef(n).fields) : TypeDef(n).fields[i].type.of.k = "named"}
NoFlag(cap) == \A n \in DOMAIN cap : ~cap[n].some

\* C12: in the encoding of a ServerCapabilities or ClientCapabilities an
\* absent sub-capability has no key and a present sub-capability with all
\* flags absent is the empty object under its key; every capability value
\* decodes from its encoding to itself; the default aggregates have every
\* sub-capability absent and no experimental entries.
C12_AbsentIsNotEmpty ==
    /\ (phase \in {"encoded", "decoded"} /\ ty \in Aggregates /\ origin # "peer") =>
            /\ wire.ok
            /\ \A i \in SubCapabilities(ty) :
                    LET f == TypeDef(ty).fields[i] IN
                    /\ ~val[f.name].some => ~HasKey(wire.v, f.name)
                    /\ (val[f.name].some /\ NoFlag(val[f.name].v)) =>
                            /\ HasKey(wire.v, f.name)
                            /\ Get(wire.v, f.name) = JObj(<< >>)
    /\ (phase = "decoded" /\ ty \in Aggregates /\ origin # "peer") => back = Ok(val)
    /\ origin \in {"ServerCapabilities::default", "ClientCapabilities::default"} =>
            \A n \in DOMAIN val : ~val[n].some

C12_Witness ==
    /\ phase = "decoded"
    /\ ty = "ServerCapabilities"
    /\ val.tools = Some([list_changed |-> None])
    /\ val.logging = Some(EmptyRecord)
    /\ ~val.resources.some
    /\ HasKey(wire.v, "tools")
    /\ ~HasKey(wire.v, "resources")
    /\ back = Ok(val)

SchemaOwnKeys == {"type", "properties", "required"}

\* C13: the keywords of the additional map of a ToolInputSchema are
\* written as keys of the schema object itself, each with its value, and
\* never under a key "additional"; decoding a schema object puts every key
\* other than type, properties and required, with its value, into
\* additional, and nothing else.
C13_AdditionalMerged ==
    /\ (/\ phase = "encoded"
        /\ ty = "ToolInputSchema"
        /\ origin = "assigned"
        /\ val.additional.some
        /\ val.additional.v.t = "obj") =>
            /\ wire.ok
            /\ ~HasKey(wire.v, "additional")
            /\ \A k \in DOMAIN val.additional.v.m :
                    \E i \in 1..Len(wire.v.kv) :
                        /\ wire.v.kv[i].k = k
                        /\ ToValue(wire.v.kv[i].v) = val.additional.v.m[k]
    /\ (/\ phase = "decoded"
        /\ ty = "ToolInputSchema"
        /\ origin = "peer"
        /\ back.ok) =>
            /\ back.v.additional.some
            /\ back.v.additional.v.t = "obj"
            /\ DOMAIN back.v.additional.v.m = WireKeys(wire.v) \ SchemaOwnKeys
            /\ \A k \in WireKeys(wire.v) \ SchemaOwnKeys :
                    back.v.additional.v.m[k] = ToValue(Get(wire.v, k))

C13_Witness ==
    /\ phase = "decoded"
    /\ ty = "ToolInputSchema"
    /\ origin = "peer"
    /\ WireKeys(wire.v) = {"type", "required", "title", "additionalProperties"}
    /\ back.ok
    /\ DOMAIN back.v.additional.v.m = {"title", "additionalProperties"}

\* the calls of with_parameter made on the tool, the names they passed, and
\* the names passed with required = true, in call order
Calls == args.calls
CalledNames == {Calls[i].name : i \in 1..Len(Calls)}
DistinctNames == \A i, j \in 1..Len(Calls) : Calls[i].name = Calls[j].name => i = j
RequiredCalls == SelectSeq(Calls, LAMBDA c : c.required)
RequiredNames == [i \in 1..Len(RequiredCalls) |-> RequiredCalls[i].name]
LastCall(n) ==
    Calls[CHOOSE i \in 1..Len(Calls) :
            /\ Calls[i].name = n
            /\ \A j \in (i+1)..Len(Calls) : Calls[j].name # n]
StringParameter(description) ==
    VObj([type |-> JStr("string"), description |-> JStr(description)])
FromTool == origin \in {"Tool::new", "Tool::with_parameter"}

\* C14: Tool::new yields a schema of type "object" with properties and
\* required absent; after the first with_parameter properties is present,
\* and required is present exactly when some call so far had required =
\* true; after calls with distinct names the tool is the one assigned
\* directly with properties mapping each name to {type: "string",
\* description: its description} and required listing, in call order, the
\* names added with required = true.
C14_BuilderIsDirect ==
    /\ origin = "Tool::new" =>
            val = [name |-> args.name,
                   description |-> Some(args.description),
                   input_schema |-> [type_ |-> "object", properties |-> None,
                                     required |-> None, additional |-> None]]
    /\ origin = "Tool::with_parameter" =>
            /\ val.input_schema.properties.some
            /\ val.input_schema.required.some <=> RequiredCalls # << >>
            /\ DistinctNames =>
                val = [name |-> args.name,
                       description |-> Some(args.description),
                       input_schema |->
                          [type_ |-> "object",
                           properties |->
                              Some(VObj([n \in CalledNames |->
                                            StringParameter(LastCall(n).description)])),
                           required |-> IF RequiredCalls = << >> THEN None
                                        ELSE Some(RequiredNames),
                           additional |-> None]]

C14_Witness ==
    /\ origin = "Tool::with_parameter"
    /\ phase = "built"
    /\ Len(Calls) = 2
    /\ DistinctNames
    /\ ~Calls[1].required
    /\ Calls[2].required
    /\ val.input_schema.required = Some(<< Calls[2].name >>)
    /\ DOMAIN val.input_schema.properties.v.m = ParameterNames

\* C16: after any sequence of with_parameter calls from Tool::new every
\* name of the required list is a key of the properties map, and the
\* properties map has exactly the names passed so far, each with the
\* description of its most recent call.
C16_PropertiesTrackCalls ==
    origin = "Tool::with_parameter" =>
        LET schema == val.input_schema IN
        /\ schema.properties.some
        /\ schema.properties.v.t = "obj"
        /\ DOMAIN schema.properties.v.m = CalledNames
        /\ \A n \in CalledNames :
                schema.properties.v.m[n] = StringParameter(LastCall(n).description)
        /\ schema.required.some =>
                \A i \in 1..Len(schema.required.v) :
                    schema.required.v[i] \in DOMAIN schema.properties.v.m

C16_Witness ==
    /\ origin = "Tool::with_parameter"
    /\ Len(Calls) = 2
    /\ Calls[1].name = Calls[2].name
    /\ Calls[1].description # Calls[2].description
    /\ Calls[1].required
    /\ val.input_schema.properties.v.m[Calls[1].name]
            = StringParameter(Calls[2].description)

\* C17: after any sequence of with_parameter calls from Tool::new the
\* required list holds each parameter name at most once.
C17_RequiredHasNoRepeat ==
    (FromTool /\ val.input_schema.required.some) =>
        \A i, j \in 1..Len(val.input_schema.required.v) :
            val.input_schema.required.v[i] = val.input_schema.required.v[j] => i = j

WithoutKey(j, k) == JObj(SelectSeq(j.kv, LAMBDA e : e.k # k))

\* C15: a response object with "error": null decodes to what the object
\* without the error key decodes to; with jsonrpc, id and a populated
\* result it decodes successfully, with that result and no error.
C15_NullErrorIsAbsent ==
    (/\ phase = "decoded"
     /\ ty = "JsonRpcResponse"
     /\ origin = "peer"
     /\ NoRepeatedKey(wire.v)
     /\ HasKey(wire.v, "error")
     /\ Get(wire.v, "error") = JNull) =>
        /\ back = from_str(ty, WithoutKey(wire.v, "error"))
        /\ (/\ {"jsonrpc", "id", "result"} \subseteq WireKeys(wire.v)
            /\ Get(wire.v, "result") # JNull) =>
                /\ back.ok
                /\ back.v.result = Some(ToValue(Get(wire.v, "result")))
                /\ back.v.error = None

C15_Witness ==
    /\ phase = "decoded"
    /\ ty = "JsonRpcResponse"
    /\ origin = "peer"
    /\ wire.v = JObj(<< Entry("jsonrpc", JStr("2.0")), Entry("id", JStr("x")),
                        Entry("result", JObj(<< >>)), Entry("error", JNull) >>)
    /\ back.ok
    /\ back.v.result = Some(VObj(EmptyMap))
    /\ ~back.v.error.some

\* C18: a JSON object without an id key does not decode as a
\* JsonRpcRequest, and a JSON object with an id key does not decode as a
\* JsonRpcNotification.
C18_IdTellsApart ==
    /\ (/\ phase = "decoded"
        /\ ty = "JsonRpcRequest"
        /\ origin = "peer"
        /\ ~HasKey(wire.v, "id")) => ~back.ok
    /\ (/\ phase = "decoded"
        /\ ty = "JsonRpcNotification"
        /\ origin = "peer"
        /\ HasKey(wire.v, "id")) => ~back.ok

====
